---- MODULE Spec2Model ----
(***************************************************************************)
(* Model of src/app.py: the survival-analysis script for kidney           *)
(* transplants.  The script reads a CSV, derives time-to-event columns,   *)
(* fits Kaplan-Meier curves per transplant year and pooled (lifelines     *)
(* KaplanMeierFitter), queries them at 1, 3 and 5 years, runs the global  *)
(* and the pairwise log-rank tests and plots the curves.                   *)
(*                                                                         *)
(* Dates are day numbers counted from 2021-01-01 (day 0).  A nullable     *)
(* value (NaT, NaN, None) is the empty sequence, a present value v is     *)
(* <<v>>.  Probabilities and chi-square statistics are exact rationals    *)
(* <<numerator, denominator>> in lowest terms.                             *)
(***************************************************************************)
EXTENDS Integers, Sequences, FiniteSets, TLC

VARIABLES csv, hoje, df, anos, tabela_resumo, pc, i, kmf, kmf_global,
          linhas_paciente, linhas_enxerto, linhas_global,
          lr_paciente, lr_enxerto, linhas_comp, graficos, erro

vars == <<csv, hoje, df, anos, tabela_resumo, pc, i, kmf, kmf_global,
          linhas_paciente, linhas_enxerto, linhas_global,
          lr_paciente, lr_enxerto, linhas_comp, graficos, erro>>

(***************************************************************************)
(* Bounds of the model.                                                    *)
(***************************************************************************)
\* rows of the CSV in a run of the whole script
MaxRows == 2
\* rows of the CSV when the estimator and the tests are exercised alone
MaxTuplas == 4

(***************************************************************************)
(* Nullable values and exact arithmetic.                                   *)
(***************************************************************************)
NaT == <<>>
NaN == <<>>
None == <<>>

Range(s) == {s[k] : k \in DOMAIN s}

Abs(x) == IF x < 0 THEN -x ELSE x

RECURSIVE GCD(_, _)
GCD(a, b) == IF b = 0 THEN a ELSE GCD(b, a % b)

\* the rational n/d in lowest terms with a positive denominator (d # 0)
Rat(n, d) ==
    LET g == GCD(Abs(n), Abs(d))
        s == IF d < 0 THEN -1 ELSE 1
    IN  <<(s * n) \div g, (s * d) \div g>>

RMul(a, b) == Rat(a[1] * b[1], a[2] * b[2])
RAdd(a, b) == Rat(a[1] * b[2] + b[1] * a[2], a[2] * b[2])
RSub(a, b) == Rat(a[1] * b[2] - b[1] * a[2], a[2] * b[2])
RDiv(a, b) == Rat(a[1] * b[2], a[2] * b[1])

SetMin(S) == CHOOSE x \in S : \A y \in S : x <= y

\* sorted(...) of a set of integers
RECURSIVE sorted(_)
sorted(S) ==
    IF S = {} THEN <<>>
    ELSE LET m == SetMin(S) IN <<m>> \o sorted(S \ {m})

\* one column of a data frame
Col(dados, c) == [k \in 1..Len(dados) |-> dados[k][c]]

\* sum of a sequence of integers
RECURSIVE SeqSum(_)
SeqSum(s) == IF s = <<>> THEN 0 ELSE s[1] + SeqSum(Tail(s))

(***************************************************************************)
(* Date handling and the derived columns (lines 22-34).                    *)
(***************************************************************************)
\* pd.to_datetime(col, errors="coerce"): an empty or unparseable cell is NaT
to_datetime(c) == IF c.tipo = "data" THEN <<c.dia>> ELSE NaT

\* .dt.year of a timestamp: the civil year of the day number (NaN for NaT)
dt_year(ts) ==
    IF ts = NaT THEN NaN
    ELSE LET d == ts[1] IN
         << CASE d < 0 -> 2020
              [] d >= 0    /\ d < 365  -> 2021
              [] d >= 365  /\ d < 730  -> 2022
              [] d >= 730  /\ d < 1095 -> 2023
              [] d >= 1095 /\ d < 1461 -> 2024
              [] d >= 1461 /\ d < 1826 -> 2025
              [] OTHER -> 2026 >>

\* Series.notna().astype(int)
notna_int(ts) == IF ts = NaT THEN 0 ELSE 1

\* (col.fillna(data_censura) - data_tx).dt.days, with the fill value wrong:
\* the event date is filled with the transplant date itself
tempo_sem_censura(data_evento, data_tx, data_censura) ==
    LET fim == IF data_evento = NaT THEN data_tx ELSE data_evento
    IN  IF fim = NaT \/ data_tx = NaT THEN NaN ELSE <<fim[1] - data_tx[1]>>

\* (col.fillna(data_censura) - data_tx).dt.days
tempo(data_evento, data_tx, data_censura) ==
    LET fim == IF data_evento = NaT THEN data_censura ELSE data_evento
    IN  IF fim = NaT \/ data_tx = NaT THEN NaN ELSE <<fim[1] - data_tx[1]>>

\* one row of df after lines 22-34
LinhaDf(r, data_censura) ==
    LET tx    == to_datetime(r.data_tx)
        obito == to_datetime(r.data_obito)
        pe    == to_datetime(r.data_pe)
    IN  [data_tx      |-> tx,
         data_obito   |-> obito,
         data_pe      |-> pe,
         ano_tx       |-> dt_year(tx),
         evento_obito |-> notna_int(obito),
         tempo_obito  |-> tempo(obito, tx, data_censura),
         evento_pe    |-> notna_int(pe),
         tempo_pe     |-> tempo(pe, tx, data_censura)]

\* df[df["ano_tx"] == ano]
Dados(d, ano) == SelectSeq(d, LAMBDA r : r.ano_tx = <<ano>>)

\* sorted(df["ano_tx"].dropna().unique())
AnosDe(d) == sorted({d[k].ano_tx[1] : k \in {j \in DOMAIN d : d[j].ano_tx # NaN}})

\* df.groupby("ano_tx").agg(total, obitos, perda_enxerto).sort_values("ano_tx")
TabelaResumo(d) ==
    LET as == AnosDe(d)
    IN  [k \in 1..Len(as) |->
            [ano_tx        |-> as[k],
             total         |-> Len(Dados(d, as[k])),
             obitos        |-> SeqSum(Col(Dados(d, as[k]), "evento_obito")),
             perda_enxerto |-> SeqSum(Col(Dados(d, as[k]), "evento_pe"))]]

\* tempos_sobrevida.items()
tempos_sobrevida == << <<"1 ano", 365>>, <<"3 anos", 3 * 365>>, <<"5 anos", 5 * 365>> >>

\* the fixed list of pairs of the pairwise table
comparacoes == << <<2022, 2023>>, <<2022, 2024>>, <<2022, 2025>>,
                  <<2023, 2024>>, <<2023, 2025>>, <<2024, 2025>> >>

(***************************************************************************)
(* lifelines.KaplanMeierFitter, as the script uses it: fit(durations,      *)
(* event_observed, label), survival_function_at_times, and the            *)
(* confidence_interval_ table.                                             *)
(***************************************************************************)
\* KaplanMeierFitter(): a fitter that has not been fitted
KaplanMeierFitter ==
    [fitted |-> FALSE, durations |-> <<>>, event_observed |-> <<>>, label |-> "",
     survival_function_ |-> <<>>, confidence_interval_ |-> <<>>]

\* fit raises when there are no durations or one of them is NaN
FitRaises(T) == Len(T) = 0 \/ \E k \in DOMAIN T : T[k] = NaN

\* survival_table_from_events: one row per distinct duration, plus the birth
\* time min(0, min duration); at_risk = entrance.cumsum() - removed.cumsum().shift(1)
RECURSIVE EventTable(_, _, _, _, _, _)
EventTable(tl, Tv, E, birth, cumEntr, cumRem) ==
    IF tl = <<>> THEN <<>>
    ELSE LET t        == Head(tl)
             removed  == Cardinality({k \in DOMAIN Tv : Tv[k] = t})
             observed == Cardinality({k \in DOMAIN Tv : Tv[k] = t /\ E[k] = 1})
             entrance == IF t = birth THEN Len(Tv) ELSE 0
             row      == [event_at |-> t,
                          removed  |-> removed,
                          observed |-> observed,
                          censored |-> removed - observed,
                          entrance |-> entrance,
                          at_risk  |-> cumEntr + entrance - cumRem]
         IN  <<row>> \o EventTable(Tail(tl), Tv, E, birth,
                                   cumEntr + entrance, cumRem + removed)

\* the population with the subjects censored at the row's time already removed
population_sem_censurados(row, first) ==
    (IF first THEN row.at_risk ELSE row.at_risk - row.entrance) - row.censored

\* _additive_estimate: population = at_risk - entrance, except in the first row
population(row, first) ==
    IF first THEN row.at_risk ELSE row.at_risk - row.entrance

\* _additive_estimate: the running product of (population - deaths) / population
\* and the running Greenwood sum of deaths / (population * (population - deaths)),
\* which is infinite (the empty sequence) once nobody is left
RECURSIVE Estimate(_, _, _, _)
Estimate(rows, first, S, V) ==
    IF rows = <<>> THEN <<>>
    ELSE LET row    == Head(rows)
             pop    == population(row, first)
             deaths == row.observed
             S2     == IF pop = 0 THEN S ELSE RMul(S, Rat(pop - deaths, pop))
             V2     == IF V = <<>> \/ (deaths > 0 /\ pop = deaths) THEN <<>>
                       ELSE IF deaths = 0 \/ pop = 0 THEN V
                       ELSE <<RAdd(V[1], Rat(deaths, pop * (pop - deaths)))>>
         IN  <<[index |-> row.event_at, KM |-> S2, cumulative_sq |-> V2]>>
             \o Estimate(Tail(rows), FALSE, S2, V2)

\* one bound of the confidence band at a curve point: a function of the point's
\* survival estimate and of its Greenwood sum
Bound(lado, e) == [lado |-> lado, S |-> e.KM, V |-> e.cumulative_sq]

\* kmf.fit(durations, event_observed, label=label), for durations without NaN
fit(T, E, label) ==
    LET Tv    == [k \in DOMAIN T |-> T[k][1]]
        m     == SetMin(Range(Tv))
        birth == IF m < 0 THEN m ELSE 0
        tl    == sorted(Range(Tv) \cup {birth})
        est   == Estimate(EventTable(tl, Tv, E, birth, 0, 0), TRUE, <<1, 1>>, <<<<0, 1>>>>)
    IN  [fitted |-> TRUE, durations |-> T, event_observed |-> E, label |-> label,
         survival_function_ |-> [k \in DOMAIN est |-> [index |-> est[k].index, KM |-> est[k].KM]],
         confidence_interval_ |->
            [k \in DOMAIN est |-> [index |-> est[k].index,
                                   lower |-> Bound("lower", est[k]),
                                   upper |-> Bound("upper", est[k])]]]

\* Series.asof(t): the position of the last row whose index is <= t, 0 for none
RECURSIVE asof(_, _, _, _)
asof(tab, t, k, last) ==
    IF k > Len(tab) THEN last
    ELSE IF tab[k].index <= t THEN asof(tab, t, k + 1, k)
    ELSE last

\* kmf.survival_function_at_times(dias).values[0]
survival_function_at_times(k, dias) ==
    LET j == asof(k.survival_function_, dias, 1, 0)
    IN  IF j = 0 THEN NaN ELSE <<k.survival_function_[j].KM>>

\* round(x * 100, 2) of a rational x, as hundredths of a percent (ties to even)
round_pct(x) ==
    LET num == x[1] * 10000
        q   == num \div x[2]
        r   == num % x[2]
    IN  IF 2 * r < x[2] THEN q
        ELSE IF 2 * r > x[2] THEN q + 1
        ELSE IF q % 2 = 0 THEN q ELSE q + 1

\* .iloc[0]: the first row of the selection
primeira_linha(s) == s[1]

\* .iloc[-1]: the last row of the selection
ultima_linha(s) == s[Len(s)]

\* extrair_sobrevida_e_ic(kmf, dias), lines 63-71
extrair_sobrevida_e_ic(k, dias) ==
    LET surv     == survival_function_at_times(k, dias)
        ci       == k.confidence_interval_
        ci_tempo == ultima_linha(SelectSeq(ci, LAMBDA row : row.index <= dias))
    IN  << IF surv = NaN THEN NaN ELSE <<round_pct(surv[1])>>,
           [round2 |-> ci_tempo.lower],
           [round2 |-> ci_tempo.upper] >>

\* the three cells {label (%): "surv (ic_inf-ic_sup)"} of a per-group row
Celulas(k) ==
    [t \in 1..Len(tempos_sobrevida) |->
        [label |-> tempos_sobrevida[t][1],
         valor |-> extrair_sobrevida_e_ic(k, tempos_sobrevida[t][2])]]

\* the three rows of the global table for one fitted event type
LinhasGlobais(k, tipo) ==
    [t \in 1..Len(tempos_sobrevida) |->
        [Grupo |-> "Global", Tipo |-> tipo, Tempo |-> tempos_sobrevida[t][1],
         valor |-> extrair_sobrevida_e_ic(k, tempos_sobrevida[t][2])]]

(***************************************************************************)
(* lifelines.statistics: multivariate_logrank_test and logrank_test.       *)
(***************************************************************************)
\* sum of a sequence of rationals
RECURSIVE RSum(_)
RSum(s) == IF s = <<>> THEN <<0, 1>> ELSE RAdd(s[1], RSum(Tail(s)))

\* n_ij: the subjects of group g still at risk at time t
n_ij(T, G, g, t) == Cardinality({k \in DOMAIN T : G[k] = g /\ T[k] >= t})

\* n_i: the subjects of all groups still at risk at time t
n_i(T, t) == Cardinality({k \in DOMAIN T : T[k] >= t})

\* d_i: the events observed at time t in all groups
d_i(T, E, t) == Cardinality({k \in DOMAIN T : T[k] = t /\ E[k] = 1})

\* N_j: the events observed in group g
N_j(T, G, E, g) == Cardinality({k \in DOMAIN T : G[k] = g /\ E[k] = 1})

\* ev: the expected events of group g, the sum over the times of n_ij * d_i / n_i
ev(T, G, E, g) ==
    LET tl == sorted(Range(T))
    IN  RSum([k \in DOMAIN tl |->
                Rat(n_ij(T, G, g, tl[k]) * d_i(T, E, tl[k]), n_i(T, tl[k]))])

\* Z_j = N_j - ev: observed minus expected events of group g
Z_j(T, G, E, g) == RSub(<<N_j(T, G, E, g), 1>>, ev(T, G, E, g))

\* factor = ((n_i - d_i) / (n_i - 1)).replace([inf, nan], 1) * d_i / n_i ** 2
factor(T, E, t) ==
    LET n == n_i(T, t)
        d == d_i(T, E, t)
    IN  RMul(IF n = 1 THEN <<1, 1>> ELSE Rat(n - d, n - 1), Rat(d, n * n))

\* the covariance of groups g and h with the product of the group's own at-risk
\* count on the diagonal
V_quadrado(T, G, E, g, h) ==
    LET tl == sorted(Range(T))
    IN  RSum([k \in DOMAIN tl |->
                RMul(factor(T, E, tl[k]),
                     IF g = h
                     THEN <<n_ij(T, G, g, tl[k]) * n_ij(T, G, g, tl[k]), 1>>
                     ELSE <<-(n_ij(T, G, g, tl[k]) * n_ij(T, G, h, tl[k])), 1>>)])

\* V: the covariance of groups g and h, the sum over the times of
\* factor * n_ij * (n_i - n_ij) on the diagonal and of -factor * n_ij * n_ik off it
V(T, G, E, g, h) ==
    LET tl == sorted(Range(T))
    IN  RSum([k \in DOMAIN tl |->
                RMul(factor(T, E, tl[k]),
                     IF g = h
                     THEN <<n_ij(T, G, g, tl[k]) * (n_i(T, tl[k]) - n_ij(T, G, g, tl[k])), 1>>
                     ELSE <<-(n_ij(T, G, g, tl[k]) * n_ij(T, G, h, tl[k])), 1>>)])

\* multivariate_logrank_test(durations, groups, event_observed): the vector U of
\* observed minus expected events and the covariance matrix, with the last group
\* dropped, which the chi-square statistic U * pinv(V) * U and its p-value with
\* k - 1 degrees of freedom are computed from
multivariate_logrank_test(T, G, E) ==
    LET gs   == sorted(Range(G))
        resto == IF Len(gs) = 0 THEN <<>> ELSE SubSeq(gs, 1, Len(gs) - 1)
    IN  [grupos  |-> gs,
         p_value |-> [U  |-> [a \in DOMAIN resto |-> Z_j(T, G, E, resto[a])],
                      V  |-> [a \in DOMAIN resto |->
                                [b \in DOMAIN resto |-> V(T, G, E, resto[a], resto[b])]],
                      gl |-> Len(gs) - 1]]

\* logrank_test(durations_A, durations_B, event_observed_A, event_observed_B):
\* the multivariate test on the concatenation with groups 0 (A) and 1 (B); with
\* two groups the statistic is Z_0 * pinv(V_00) * Z_0, and pinv(0) = 0
logrank_test(TA, TB, EA, EB) ==
    LET T  == TA \o TB
        E  == EA \o EB
        G  == [k \in 1..(Len(TA) + Len(TB)) |-> IF k <= Len(TA) THEN 0 ELSE 1]
        Z  == Z_j(T, G, E, 0)
        V0 == V(T, G, E, 0, 0)
    IN  [p_value |-> [chi2 |-> IF V0[1] = 0 THEN <<0, 1>> ELSE RDiv(RMul(Z, Z), V0),
                      gl   |-> 1]]

\* the values of a column of durations that holds no NaN
Valores(col) == [k \in DOMAIN col |-> col[k][1]]

\* comparar_anos with the guard written with "and": the test is skipped only
\* when both years are empty
comparar_anos_and(d, a1, a2, col_tempo, col_evento) ==
    LET d1 == Dados(d, a1)
        d2 == Dados(d, a2)
    IN  IF Len(d1) = 0 /\ Len(d2) = 0 THEN None
        ELSE <<logrank_test(Valores(Col(d1, col_tempo)), Valores(Col(d2, col_tempo)),
                            Col(d1, col_evento), Col(d2, col_evento)).p_value>>

\* comparar_anos(df, a1, a2, tempo, evento), lines 161-169
comparar_anos(d, a1, a2, col_tempo, col_evento) ==
    LET d1 == Dados(d, a1)
        d2 == Dados(d, a2)
    IN  IF Len(d1) = 0 \/ Len(d2) = 0 THEN None
        ELSE <<logrank_test(Valores(Col(d1, col_tempo)), Valores(Col(d2, col_tempo)),
                            Col(d1, col_evento), Col(d2, col_evento)).p_value>>

\* the rows of one iteration of the pairwise loop when a pair with an absent
\* year is skipped instead of reported empty
LinhaComp_so_presentes(d, par) ==
    LET p_obito == comparar_anos(d, par[1], par[2], "tempo_obito", "evento_obito")
        p_pe    == comparar_anos(d, par[1], par[2], "tempo_pe", "evento_pe")
    IN  IF p_obito = None \/ p_pe = None THEN <<>>
        ELSE << [Comparacao |-> par,
                 p_obito    |-> <<[round4 |-> p_obito[1]]>>,
                 p_pe       |-> <<[round4 |-> p_pe[1]]>>] >>

\* the rows one iteration of the pairwise loop appends, lines 175-182
LinhaComp(d, par) ==
    LET p_obito == comparar_anos(d, par[1], par[2], "tempo_obito", "evento_obito")
        p_pe    == comparar_anos(d, par[1], par[2], "tempo_pe", "evento_pe")
    IN  << [Comparacao |-> par,
            p_obito    |-> IF p_obito = None THEN None ELSE <<[round4 |-> p_obito[1]]>>,
            p_pe       |-> IF p_pe = None THEN None ELSE <<[round4 |-> p_pe[1]]>>] >>

(***************************************************************************)
(* The inputs: the rows of the CSV and today's date.                       *)
(***************************************************************************)
Data(d) == [tipo |-> "data", dia |-> d]
Vazio   == [tipo |-> "vazio", dia |-> 0]
Lixo    == [tipo |-> "lixo", dia |-> 0]

\* today's date: 2025-02-09
DiasHoje == {1500}

\* transplant dates in 2021, 2022, 2023 and 2024, or an unparseable cell
CelulasTx == {Data(100), Data(500), Data(900), Data(1200), Lixo}
\* death: none, or a date that is before, on or after the transplant dates
CelulasObito == {Vazio, Data(450), Data(500), Data(1300)}
\* graft loss: none, or a date
CelulasPe == {Vazio, Data(950)}

LinhasCsv == [data_tx : CelulasTx, data_obito : CelulasObito, data_pe : CelulasPe]

\* the CSV files of a run of the whole script
Arquivos == UNION {[1..n -> LinhasCsv] : n \in 1..MaxRows}

\* rows for the estimator and the tests alone: transplants late in 2024 and early
\* in 2025, death none or 0, 10 or 20 days after the transplant, no graft loss
TxFn == <<1450, 1470, 1480>>
AtrasoFn == <<-1, 0, 10, 20>>
LinhaFn(t) ==
    LET tx == TxFn[((t - 1) \div Len(AtrasoFn)) + 1]
        at == AtrasoFn[((t - 1) % Len(AtrasoFn)) + 1]
    IN  [data_tx    |-> Data(tx),
         data_obito |-> IF at < 0 THEN Vazio ELSE Data(tx + at),
         data_pe    |-> Vazio]
NLinhasFn == Len(TxFn) * Len(AtrasoFn)

\* the CSV files for the estimator and the tests alone; the rows of a file are a
\* multiset, listed in one order
ArquivosFn ==
    UNION {{[k \in 1..n |-> LinhaFn(ix[k])] :
              ix \in {f \in [1..n -> 1..NLinhasFn] :
                        \A k \in 1..(n - 1) : f[k] <= f[k + 1]}} : n \in 1..MaxTuplas}

\* the days the curve is queried at when the estimator is exercised alone
DiasConsulta == {0, 5, 10, 15, 20, 30, 50, 365}

(***************************************************************************)
(* The script, top to bottom.                                              *)
(***************************************************************************)
entrada == <<csv, hoje>>
quadro  == <<df, anos, tabela_resumo>>
tabelas == <<linhas_paciente, linhas_enxerto, linhas_global>>
testes  == <<lr_paciente, lr_enxerto, linhas_comp>>

InitCom(arquivos) ==
    /\ csv \in arquivos
    /\ hoje \in DiasHoje
    /\ df = <<>>
    /\ anos = <<>>
    /\ tabela_resumo = <<>>
    /\ pc = "inicio"
    /\ i = 1
    /\ kmf = KaplanMeierFitter
    /\ kmf_global = KaplanMeierFitter
    /\ linhas_paciente = <<>>
    /\ linhas_enxerto = <<>>
    /\ linhas_global = <<>>
    /\ lr_paciente = None
    /\ lr_enxerto = None
    /\ linhas_comp = <<>>
    /\ graficos = <<>>
    /\ erro = None

Init == InitCom(Arquivos)

\* lines 19-58: read the CSV, coerce the dates, derive the columns, the summary
\* table and the list of years
Carregar(prox) ==
    /\ pc = "inicio"
    /\ df' = [k \in DOMAIN csv |-> LinhaDf(csv[k], to_datetime(Data(hoje)))]
    /\ anos' = AnosDe(df')
    /\ tabela_resumo' = TabelaResumo(df')
    /\ pc' = prox
    /\ i' = 1
    /\ UNCHANGED <<entrada, kmf, kmf_global, tabelas, testes, graficos, erro>>

CarregarDados == Carregar("paciente")

\* kmf.fit on the rows of year anos[i]: lines 77-81 and 98-102 (with the skip of
\* an empty group), 194-195 and 211-212 (without it)
FitAno(fase, prox, col_tempo, col_evento, label, pula_vazio) ==
    /\ pc = fase
    /\ i <= Len(anos)
    /\ LET dados == Dados(df, anos[i])
       IN  IF Len(dados) = 0 /\ pula_vazio
           THEN /\ i' = i + 1
                /\ UNCHANGED <<pc, kmf, erro>>
           ELSE IF FitRaises(Col(dados, col_tempo))
           THEN /\ pc' = "abortado"
                /\ erro' = <<"fit">>
                /\ UNCHANGED <<i, kmf>>
           ELSE /\ kmf' = fit(Col(dados, col_tempo), Col(dados, col_evento),
                              IF label THEN ToString(anos[i]) ELSE "KM_estimate")
                /\ pc' = prox
                /\ UNCHANGED <<i, erro>>
    /\ UNCHANGED <<entrada, quadro, kmf_global, tabelas, testes, graficos>>

\* the end of a loop over anos
FimAnos(fase, prox) ==
    /\ pc = fase
    /\ i > Len(anos)
    /\ pc' = prox
    /\ i' = 1
    /\ UNCHANGED <<entrada, quadro, kmf, kmf_global, tabelas, testes, graficos, erro>>

\* lines 76-81
PacienteFit == FitAno("paciente", "paciente_linha", "tempo_obito", "evento_obito", FALSE, TRUE)

\* lines 83-89
PacienteLinha ==
    /\ pc = "paciente_linha"
    /\ linhas_paciente' = Append(linhas_paciente, [Ano_TX |-> anos[i], celulas |-> Celulas(kmf)])
    /\ i' = i + 1
    /\ pc' = "paciente"
    /\ UNCHANGED <<entrada, quadro, kmf, kmf_global, linhas_enxerto, linhas_global,
                   testes, graficos, erro>>

PacienteFim == FimAnos("paciente", "enxerto")

\* lines 97-102
EnxertoFit == FitAno("enxerto", "enxerto_linha", "tempo_pe", "evento_pe", FALSE, TRUE)

\* lines 104-110
EnxertoLinha ==
    /\ pc = "enxerto_linha"
    /\ linhas_enxerto' = Append(linhas_enxerto, [Ano_TX |-> anos[i], celulas |-> Celulas(kmf)])
    /\ i' = i + 1
    /\ pc' = "enxerto"
    /\ UNCHANGED <<entrada, quadro, kmf, kmf_global, linhas_paciente, linhas_global,
                   testes, graficos, erro>>

EnxertoFim == FimAnos("enxerto", "global_paciente")

\* kmf_global.fit on all the rows of df: lines 118, 130, 198 and 215
FitGlobal(fase, prox, col_tempo, col_evento, label) ==
    /\ pc = fase
    /\ IF FitRaises(Col(df, col_tempo))
       THEN /\ pc' = "abortado"
            /\ erro' = <<"fit">>
            /\ UNCHANGED kmf_global
       ELSE /\ kmf_global' = fit(Col(df, col_tempo), Col(df, col_evento), label)
            /\ pc' = prox
            /\ UNCHANGED erro
    /\ UNCHANGED <<entrada, quadro, i, kmf, tabelas, testes, graficos>>

\* lines 119-128 and 131-140
LinhasGlobal(fase, prox, tipo) ==
    /\ pc = fase
    /\ linhas_global' = linhas_global \o LinhasGlobais(kmf_global, tipo)
    /\ pc' = prox
    /\ UNCHANGED <<entrada, quadro, i, kmf, kmf_global, linhas_paciente, linhas_enxerto,
                   testes, graficos, erro>>

GlobalPacienteFit == FitGlobal("global_paciente", "global_paciente_linhas",
                               "tempo_obito", "evento_obito", "KM_estimate")
GlobalPacienteLinhas == LinhasGlobal("global_paciente_linhas", "global_enxerto", "Paciente")
GlobalEnxertoFit == FitGlobal("global_enxerto", "global_enxerto_linhas",
                              "tempo_pe", "evento_pe", "KM_estimate")
GlobalEnxertoLinhas == LinhasGlobal("global_enxerto_linhas", "logrank_global", "Enxerto")

\* lines 148-156
LogRankGlobal ==
    /\ pc = "logrank_global"
    /\ lr_paciente' = <<multivariate_logrank_test(Valores(Col(df, "tempo_obito")),
                                                  Valores(Col(df, "ano_tx")),
                                                  Col(df, "evento_obito"))>>
    /\ lr_enxerto' = <<multivariate_logrank_test(Valores(Col(df, "tempo_pe")),
                                                 Valores(Col(df, "ano_tx")),
                                                 Col(df, "evento_pe"))>>
    /\ pc' = "pareado"
    /\ i' = 1
    /\ UNCHANGED <<entrada, quadro, kmf, kmf_global, tabelas, linhas_comp, graficos, erro>>

\* lines 174-182: one iteration of the pairwise loop
Pareado ==
    /\ pc = "pareado"
    /\ i <= Len(comparacoes)
    /\ linhas_comp' = linhas_comp \o LinhaComp(df, comparacoes[i])
    /\ i' = i + 1
    /\ UNCHANGED <<entrada, quadro, pc, kmf, kmf_global, tabelas, lr_paciente, lr_enxerto,
                   graficos, erro>>

\* line 184: the loop is over
PareadoFim ==
    /\ pc = "pareado"
    /\ i > Len(comparacoes)
    /\ pc' = "grafico_paciente"
    /\ i' = 1
    /\ UNCHANGED <<entrada, quadro, kmf, kmf_global, tabelas, testes, graficos, erro>>

\* kmf.plot / kmf_global.plot: the fitter's current curve is drawn under its label
Plot(fase, prox, eixo, fitter, passo) ==
    /\ pc = fase
    /\ graficos' = Append(graficos, [eixo  |-> eixo,
                                     label |-> fitter.label,
                                     curva |-> fitter.survival_function_])
    /\ pc' = prox
    /\ i' = i + passo
    /\ UNCHANGED <<entrada, quadro, kmf, kmf_global, tabelas, testes, erro>>

\* line 195 left out: the loop plots without fitting again
GraficoPacienteFit_sem_fit ==
    /\ pc = "grafico_paciente"
    /\ i <= Len(anos)
    /\ pc' = "grafico_paciente_plot"
    /\ UNCHANGED <<entrada, quadro, i, kmf, kmf_global, tabelas, testes, graficos, erro>>

\* lines 193-195
GraficoPacienteFit == FitAno("grafico_paciente", "grafico_paciente_plot",
                             "tempo_obito", "evento_obito", TRUE, FALSE)
\* line 196
GraficoPacientePlot == Plot("grafico_paciente_plot", "grafico_paciente", "Paciente", kmf, 1)
GraficoPacienteFim == FimAnos("grafico_paciente", "grafico_paciente_global")
\* line 198
GraficoPacienteGlobalFit == FitGlobal("grafico_paciente_global", "grafico_paciente_global_plot",
                                      "tempo_obito", "evento_obito", "Global")
\* line 199
GraficoPacienteGlobalPlot == Plot("grafico_paciente_global_plot", "grafico_enxerto",
                                  "Paciente", kmf_global, 0)
\* lines 210-212
GraficoEnxertoFit == FitAno("grafico_enxerto", "grafico_enxerto_plot",
                            "tempo_pe", "evento_pe", TRUE, FALSE)
\* line 213
GraficoEnxertoPlot == Plot("grafico_enxerto_plot", "grafico_enxerto", "Enxerto", kmf, 1)
GraficoEnxertoFim == FimAnos("grafico_enxerto", "grafico_enxerto_global")
\* line 215
GraficoEnxertoGlobalFit == FitGlobal("grafico_enxerto_global", "grafico_enxerto_global_plot",
                                     "tempo_pe", "evento_pe", "Global")
\* line 216
GraficoEnxertoGlobalPlot == Plot("grafico_enxerto_global_plot", "fim", "Enxerto", kmf_global, 0)

Next ==
    \/ CarregarDados
    \/ PacienteFit
    \/ PacienteLinha
    \/ PacienteFim
    \/ EnxertoFit
    \/ EnxertoLinha
    \/ EnxertoFim
    \/ GlobalPacienteFit
    \/ GlobalPacienteLinhas
    \/ GlobalEnxertoFit
    \/ GlobalEnxertoLinhas
    \/ LogRankGlobal
    \/ Pareado
    \/ PareadoFim
    \/ GraficoPacienteFit
    \/ GraficoPacientePlot
    \/ GraficoPacienteFim
    \/ GraficoPacienteGlobalFit
    \/ GraficoPacienteGlobalPlot
    \/ GraficoEnxertoFit
    \/ GraficoEnxertoPlot
    \/ GraficoEnxertoFim
    \/ GraficoEnxertoGlobalFit
    \/ GraficoEnxertoGlobalPlot

Spec == Init /\ [][Next]_vars

(***************************************************************************)
(* The estimator, the point-in-time query and the pairwise test applied    *)
(* alone to the columns the script derives.                                *)
(***************************************************************************)
InitFn == InitCom(ArquivosFn)

CarregarFn == Carregar("fn")

\* kmf.fit on the rows of one year, as in lines 77-81
FnFitAno ==
    /\ pc = "fn"
    /\ \E a \in Range(anos) :
          kmf' = fit(Col(Dados(df, a), "tempo_obito"), Col(Dados(df, a), "evento_obito"),
                     "KM_estimate")
    /\ pc' = "fn_consulta"
    /\ UNCHANGED <<entrada, quadro, i, kmf_global, tabelas, testes, graficos, erro>>

\* kmf_global.fit on all the rows, as in line 118
FnFitGlobal ==
    /\ pc = "fn"
    /\ kmf' = fit(Col(df, "tempo_obito"), Col(df, "evento_obito"), "KM_estimate")
    /\ pc' = "fn_consulta"
    /\ UNCHANGED <<entrada, quadro, i, kmf_global, tabelas, testes, graficos, erro>>

\* extrair_sobrevida_e_ic(kmf, dias) for one day count
FnConsulta ==
    /\ pc = "fn_consulta"
    /\ \E dias \in DiasConsulta :
          linhas_global' = <<[dias |-> dias, valor |-> extrair_sobrevida_e_ic(kmf, dias)]>>
    /\ pc' = "fn_fim"
    /\ UNCHANGED <<entrada, quadro, i, kmf, kmf_global, linhas_paciente, linhas_enxerto,
                   testes, graficos, erro>>

\* comparar_anos for the years 2024 and 2025, in both orders
FnComparar ==
    /\ pc = "fn"
    /\ linhas_comp' = LinhaComp(df, <<2024, 2025>>) \o LinhaComp(df, <<2025, 2024>>)
    /\ pc' = "fn_fim"
    /\ UNCHANGED <<entrada, quadro, i, kmf, kmf_global, tabelas, lr_paciente, lr_enxerto,
                   graficos, erro>>

NextFn == CarregarFn \/ FnFitAno \/ FnFitGlobal \/ FnConsulta \/ FnComparar

SpecFn == InitFn /\ [][NextFn]_vars

(***************************************************************************)
(* Properties.                                                             *)
(***************************************************************************)
Presente(c) == c.tipo = "data"

\* the duration the contract gives a CSV row for one event cell
DuracaoContrato(r, cel) ==
    IF ~Presente(r.data_tx) THEN NaN
    ELSE <<(IF Presente(cel) THEN cel.dia ELSE hoje) - r.data_tx.dia>>

\* C1: for every row and for each event type on its own, the event indicator is 1
\* exactly when the event date is present, and the duration is the event date, or
\* the one censoring date when there is none, minus the transplant date, in days
\* (undefined when the transplant date itself is missing).
C1_EventoEDuracao ==
    pc # "inicio" =>
        /\ DOMAIN df = DOMAIN csv
        /\ \A k \in DOMAIN csv :
              /\ (df[k].evento_obito = 1) <=> Presente(csv[k].data_obito)
              /\ df[k].evento_obito \in {0, 1}
              /\ df[k].tempo_obito = DuracaoContrato(csv[k], csv[k].data_obito)
              /\ (df[k].evento_pe = 1) <=> Presente(csv[k].data_pe)
              /\ df[k].evento_pe \in {0, 1}
              /\ df[k].tempo_pe = DuracaoContrato(csv[k], csv[k].data_pe)

\* C1 witness: a loaded row with a death date and no graft-loss date: the death
\* duration runs to the death, the graft duration to the censoring date.
C1_Witness ==
    /\ pc # "inicio"
    /\ \E k \in DOMAIN df :
          /\ Presente(csv[k].data_tx) /\ Presente(csv[k].data_obito)
          /\ ~Presente(csv[k].data_pe)
          /\ df[k].evento_obito = 1 /\ df[k].evento_pe = 0
          /\ df[k].tempo_obito = <<csv[k].data_obito.dia - csv[k].data_tx.dia>>
          /\ df[k].tempo_pe = <<hoje - csv[k].data_tx.dia>>
          /\ df[k].tempo_obito # df[k].tempo_pe

\* the durations a fitter was fitted on are all defined and non-negative
DuracoesValidas(f) ==
    f.fitted => \A k \in DOMAIN f.durations :
                    f.durations[k] # NaN /\ f.durations[k][1] >= 0

\* C2: every tuple that reaches the estimator has a defined, non-negative
\* duration, and a bad record never aborts the analysis of the others.
C2_DuracoesValidas ==
    /\ DuracoesValidas(kmf)
    /\ DuracoesValidas(kmf_global)
    /\ pc # "abortado"

\* the curve's value at the row of time t
SEm(f, t) ==
    LET sf == f.survival_function_
    IN  sf[CHOOSE j \in DOMAIN sf : sf[j].index = t].KM

\* the curve obeys the product-limit recurrence over its distinct event times,
\* with n_i counting every tuple of duration >= t_i, is 1 before the first event
\* time and flat between event times
Recorrencia(f) ==
    LET T   == Valores(f.durations)
        E   == f.event_observed
        sf  == f.survival_function_
        tev == sorted({T[k] : k \in {j \in DOMAIN T : E[j] = 1}})
        n(t) == Cardinality({k \in DOMAIN T : T[k] >= t})
        d(t) == Cardinality({k \in DOMAIN T : T[k] = t /\ E[k] = 1})
    IN  /\ \A a \in DOMAIN tev :
              SEm(f, tev[a]) = RMul(IF a = 1 THEN <<1, 1>> ELSE SEm(f, tev[a - 1]),
                                    Rat(n(tev[a]) - d(tev[a]), n(tev[a])))
        /\ \A j \in DOMAIN sf :
              LET antes == {a \in DOMAIN tev : tev[a] <= sf[j].index}
              IN  sf[j].KM = IF antes = {} THEN <<1, 1>>
                             ELSE SEm(f, tev[CHOOSE a \in antes : \A b \in antes : b <= a])

\* the tuples (10,true), (20,false), (20,true), (30,false)
Exemplo(f) ==
    LET T == f.durations
        E == f.event_observed
        conta(t, e) == Cardinality({k \in DOMAIN T : T[k] = <<t>> /\ E[k] = e})
    IN  /\ f.fitted
        /\ Len(T) = 4
        /\ conta(10, 1) = 1 /\ conta(20, 0) = 1 /\ conta(20, 1) = 1 /\ conta(30, 0) = 1

\* C3 as stated: S(0) = 1, the recurrence at each distinct event time, and for the
\* example tuples S(10) = 0.75 and S(20) = 0.375, unchanged through 30.
C3_Original ==
    kmf.fitted =>
        /\ survival_function_at_times(kmf, 0) = <<<<1, 1>>>>
        /\ Recorrencia(kmf)
        /\ Exemplo(kmf) =>
              /\ SEm(kmf, 10) = <<3, 4>>
              /\ SEm(kmf, 20) = <<3, 8>>
              /\ SEm(kmf, 30) = <<3, 8>>

\* C3 amended: the curve is 1 at every time before the first event time, so
\* S(0) = 1 unless an event has duration 0 or less; at each distinct event time
\* S(t_i) = S(t_{i-1}) * (1 - d_i/n_i) with n_i counting every tuple of duration
\* >= t_i; for the example tuples S(10) = 0.75 and S(20) = 0.75 * (1 - 1/3) = 0.5,
\* unchanged through 30.
C3_KaplanMeier ==
    kmf.fitted =>
        /\ (\A k \in DOMAIN kmf.durations :
               kmf.event_observed[k] = 1 => kmf.durations[k][1] > 0)
              => survival_function_at_times(kmf, 0) = <<<<1, 1>>>>
        /\ Recorrencia(kmf)
        /\ Exemplo(kmf) =>
              /\ SEm(kmf, 10) = <<3, 4>>
              /\ SEm(kmf, 20) = <<1, 2>>
              /\ SEm(kmf, 30) = <<1, 2>>

\* C3 witness: the fitter holds the curve of the example tuples.
C3_Witness ==
    /\ Exemplo(kmf)
    /\ SEm(kmf, 10) = <<3, 4>>
    /\ SEm(kmf, 20) = <<1, 2>>

\* the position of the curve point with the greatest time <= d
PontoEmVigor(f, d) ==
    LET sf == f.survival_function_
    IN  CHOOSE j \in DOMAIN sf :
            /\ sf[j].index <= d
            /\ \A j2 \in DOMAIN sf : sf[j2].index <= d => sf[j2].index <= sf[j].index

\* C4: for every fitted curve and every day count d >= 0, also beyond the last
\* observed duration, the query returns the survival estimate and both confidence
\* bounds of one curve point, the one with the greatest time <= d.
C4_MesmoPonto ==
    (pc = "fn_fim" /\ linhas_global # <<>>) =>
        LET r  == linhas_global[1]
            j  == PontoEmVigor(kmf, r.dias)
            sf == kmf.survival_function_
            ci == kmf.confidence_interval_
        IN  /\ ci[j].index = sf[j].index
            /\ r.valor[1] = <<round_pct(sf[j].KM)>>
            /\ r.valor[2] = [round2 |-> ci[j].lower]
            /\ r.valor[3] = [round2 |-> ci[j].upper]
            /\ r.valor[2].round2.S = sf[j].KM
            /\ r.valor[3].round2.S = sf[j].KM

\* C4 witness: a query beyond the last observed duration of a curve that has
\* dropped below 1 and is not at its first point.
C4_Witness ==
    /\ pc = "fn_fim"
    /\ linhas_global # <<>>
    /\ \A k \in DOMAIN kmf.durations : kmf.durations[k][1] < linhas_global[1].dias
    /\ linhas_global[1].valor[1][1] < 10000
    /\ PontoEmVigor(kmf, linhas_global[1].dias) > 2

\* observed minus expected events of the rows of year a against those of year b
ZDe(a, b) ==
    LET d1 == Dados(df, a)
        d2 == Dados(df, b)
        T  == Valores(Col(d1, "tempo_obito")) \o Valores(Col(d2, "tempo_obito"))
        E  == Col(d1, "evento_obito") \o Col(d2, "evento_obito")
        G  == [k \in 1..(Len(d1) + Len(d2)) |-> IF k <= Len(d1) THEN 0 ELSE 1]
    IN  Z_j(T, G, E, 0)

\* C5: the two-group log-rank test gives the same statistic and p-value whichever
\* group comes first; observed minus expected only changes sign.
C5_Simetria ==
    (pc = "fn_fim" /\ Len(linhas_comp) = 2) =>
        /\ linhas_comp[1].Comparacao = <<2024, 2025>>
        /\ linhas_comp[2].Comparacao = <<2025, 2024>>
        /\ linhas_comp[1].p_obito = linhas_comp[2].p_obito
        /\ linhas_comp[1].p_pe = linhas_comp[2].p_pe
        /\ linhas_comp[1].p_obito # None =>
              RAdd(ZDe(2024, 2025), ZDe(2025, 2024)) = <<0, 1>>

\* C5 witness: both groups have subjects, of different numbers, and the statistic
\* is not zero.
C5_Witness ==
    /\ pc = "fn_fim"
    /\ Len(linhas_comp) = 2
    /\ linhas_comp[1].p_obito # None
    /\ linhas_comp[1].p_obito[1].round4.chi2[1] > 0
    /\ ZDe(2024, 2025)[1] # 0
    /\ Len(Dados(df, 2024)) # Len(Dados(df, 2025))

SemSujeitos(a) == ~\E k \in DOMAIN df : df[k].ano_tx = <<a>>

DepoisDoPareado ==
    pc \in {"grafico_paciente", "grafico_paciente_plot", "grafico_paciente_global",
            "grafico_paciente_global_plot", "grafico_enxerto", "grafico_enxerto_plot",
            "grafico_enxerto_global", "grafico_enxerto_global_plot", "fim"}

\* C6: a comparison with an empty group gives None for that comparison only; every
\* other comparison of the list is computed and reported, and the pairwise loop
\* never aborts the run.
C6_SoAquelaComparacao ==
    /\ \A j \in DOMAIN linhas_comp :
          LET par   == comparacoes[j]
              vazio == SemSujeitos(par[1]) \/ SemSujeitos(par[2])
          IN  /\ linhas_comp[j].Comparacao = par
              /\ (linhas_comp[j].p_obito = None) <=> vazio
              /\ (linhas_comp[j].p_pe = None) <=> vazio
    /\ pc = "pareado" => Len(linhas_comp) = i - 1
    /\ DepoisDoPareado => Len(linhas_comp) = Len(comparacoes)
    /\ pc = "abortado" => linhas_comp = <<>>

\* C6 witness: the finished table has three empty comparisons, then a computed one,
\* then empty ones again.
C6_Witness ==
    /\ pc = "fim"
    /\ Len(linhas_comp) = 6
    /\ linhas_comp[1].p_obito = None
    /\ linhas_comp[3].p_obito = None
    /\ linhas_comp[4].p_obito # None
    /\ linhas_comp[5].p_obito = None

\* the summed log-rank variance of the comparison of years a and b is zero
VarianciaZero(a, b, col_tempo, col_evento) ==
    LET d1 == Dados(df, a)
        d2 == Dados(df, b)
        T  == Valores(Col(d1, col_tempo)) \o Valores(Col(d2, col_tempo))
        E  == Col(d1, col_evento) \o Col(d2, col_evento)
        G  == [k \in 1..(Len(d1) + Len(d2)) |-> IF k <= Len(d1) THEN 0 ELSE 1]
    IN  V(T, G, E, 0, 0) = <<0, 1>>

\* the global test compares two groups or more and its covariance matrix is all zero
GlobalDegenerado(lr) ==
    /\ Len(lr.grupos) >= 2
    /\ \A a \in DOMAIN lr.p_value.V : \A b \in DOMAIN lr.p_value.V :
          lr.p_value.V[a][b] = <<0, 1>>

\* C7: a comparison whose summed log-rank variance is zero is tagged
\* DegenerateVariance in its result, in the pairwise table and in the global test.
C7_VarianciaDegeneradaMarcada ==
    /\ \A j \in DOMAIN linhas_comp :
          LET par == comparacoes[j]
              row == linhas_comp[j]
          IN  /\ (row.p_obito # None
                    /\ VarianciaZero(par[1], par[2], "tempo_obito", "evento_obito"))
                 => ("tag" \in DOMAIN row /\ row["tag"] = "DegenerateVariance")
              /\ (row.p_pe # None
                    /\ VarianciaZero(par[1], par[2], "tempo_pe", "evento_pe"))
                 => ("tag" \in DOMAIN row /\ row["tag"] = "DegenerateVariance")
    /\ (lr_paciente # None /\ GlobalDegenerado(lr_paciente[1]))
          => ("tag" \in DOMAIN lr_paciente[1]
                /\ lr_paciente[1]["tag"] = "DegenerateVariance")

\* the years the pairwise table asks for
AnosPedidos == {comparacoes[j][1] : j \in DOMAIN comparacoes}
                  \cup {comparacoes[j][2] : j \in DOMAIN comparacoes}

\* the per-group results hold an entry for year a
TemEntrada(a) ==
    \/ \E r \in Range(linhas_paciente) : r.Ano_TX = a
    \/ \E r \in Range(linhas_enxerto) : r.Ano_TX = a
    \/ \E g \in Range(graficos) : g.label = ToString(a)

\* the summary shown to the caller lists year a
OmissaoReportada(a) == \E r \in Range(tabela_resumo) : r.ano_tx = a

\* C8: a group key without members gets no row and no curve in the per-group
\* results, and its omission is reported to the caller.
C8_OmissaoReportada ==
    pc = "fim" =>
        \A a \in AnosPedidos :
            SemSujeitos(a) => (~TemEntrada(a) /\ OmissaoReportada(a))

\* the fitter state holds the columns it is attributed to
FitDe(f, dados, col_tempo, col_evento) ==
    /\ f.fitted
    /\ f.durations = Col(dados, col_tempo)
    /\ f.event_observed = Col(dados, col_evento)

\* the curve a fresh fit on the rows of year a gives
CurvaDe(dados, col_tempo, col_evento) == fit(Col(dados, col_tempo), Col(dados, col_evento), "")

\* C9: every query and every plot attributed to a group and an event type reads
\* a fitter state produced by a fit on exactly that group's tuples of that event
\* type, over the two table loops, the global rows and the two plot loops.
C9_SemVazamento ==
    /\ pc \in {"paciente_linha", "grafico_paciente_plot"}
          => FitDe(kmf, Dados(df, anos[i]), "tempo_obito", "evento_obito")
    /\ pc \in {"enxerto_linha", "grafico_enxerto_plot"}
          => FitDe(kmf, Dados(df, anos[i]), "tempo_pe", "evento_pe")
    /\ pc \in {"global_paciente_linhas", "grafico_paciente_global_plot"}
          => FitDe(kmf_global, df, "tempo_obito", "evento_obito")
    /\ pc \in {"global_enxerto_linhas", "grafico_enxerto_global_plot"}
          => FitDe(kmf_global, df, "tempo_pe", "evento_pe")
    /\ \A k \in DOMAIN linhas_paciente :
          linhas_paciente[k] =
              [Ano_TX  |-> anos[k],
               celulas |-> Celulas(CurvaDe(Dados(df, anos[k]), "tempo_obito", "evento_obito"))]
    /\ \A k \in DOMAIN linhas_enxerto :
          linhas_enxerto[k] =
              [Ano_TX  |-> anos[k],
               celulas |-> Celulas(CurvaDe(Dados(df, anos[k]), "tempo_pe", "evento_pe"))]
    /\ \A k \in DOMAIN linhas_global :
          linhas_global[k] =
              (IF k <= 3
               THEN LinhasGlobais(CurvaDe(df, "tempo_obito", "evento_obito"), "Paciente")
               ELSE LinhasGlobais(CurvaDe(df, "tempo_pe", "evento_pe"), "Enxerto"))
                  [((k - 1) % 3) + 1]
    /\ \A k \in DOMAIN graficos :
          LET g   == graficos[k]
              col == IF g.eixo = "Paciente" THEN <<"tempo_obito", "evento_obito">>
                     ELSE <<"tempo_pe", "evento_pe">>
              n   == Len(anos)
              m   == ((k - 1) % (n + 1)) + 1
          IN  /\ g.eixo = IF k <= n + 1 THEN "Paciente" ELSE "Enxerto"
              /\ IF m <= n
                 THEN /\ g.label = ToString(anos[m])
                      /\ g.curva = CurvaDe(Dados(df, anos[m]), col[1], col[2]).survival_function_
                 ELSE /\ g.label = "Global"
                      /\ g.curva = CurvaDe(df, col[1], col[2]).survival_function_

\* C9 witness: the run is over and the patient plot shows the curves of two years
\* that differ from each other and from the graft curves.
C9_Witness ==
    /\ pc = "fim"
    /\ Len(anos) = 2
    /\ Len(graficos) = 6
    /\ graficos[1].curva # graficos[2].curva
    /\ graficos[1].curva # graficos[4].curva
    /\ graficos[2].curva # graficos[5].curva
    /\ Len(linhas_paciente) = 2
    /\ linhas_paciente[1].celulas # linhas_paciente[2].celulas

\* C10: the pairwise table has exactly one row for each of the six fixed pairs of
\* 2022..2025, in the fixed order, whatever years the data hold; a pair with an
\* absent year has empty p-values; a year of the data outside 2022..2025 is in the
\* per-group tables and in the global test and in no pairwise comparison.
C10_SeisPares ==
    DepoisDoPareado =>
        /\ [j \in DOMAIN linhas_comp |-> linhas_comp[j].Comparacao]
              = << <<2022, 2023>>, <<2022, 2024>>, <<2022, 2025>>,
                   <<2023, 2024>>, <<2023, 2025>>, <<2024, 2025>> >>
        /\ \A j \in DOMAIN linhas_comp :
              (SemSujeitos(linhas_comp[j].Comparacao[1])
                 \/ SemSujeitos(linhas_comp[j].Comparacao[2]))
              => (linhas_comp[j].p_obito = None /\ linhas_comp[j].p_pe = None)
        /\ \A k \in DOMAIN df :
              (df[k].ano_tx # NaN /\ df[k].ano_tx[1] \notin 2022..2025) =>
                  LET a == df[k].ano_tx[1]
                  IN  /\ \E r \in Range(linhas_paciente) : r.Ano_TX = a
                      /\ \E r \in Range(linhas_enxerto) : r.Ano_TX = a
                      /\ \E r \in Range(tabela_resumo) : r.ano_tx = a
                      /\ a \in Range(lr_paciente[1].grupos)
                      /\ a \in Range(lr_enxerto[1].grupos)
                      /\ \A j \in DOMAIN linhas_comp :
                            a # linhas_comp[j].Comparacao[1]
                               /\ a # linhas_comp[j].Comparacao[2]

\* C10 witness: the run is over with a 2021 transplant and a 2023 transplant in the
\* data: six rows, all of them empty.
C10_Witness ==
    /\ pc = "fim"
    /\ \E k \in DOMAIN df : df[k].ano_tx = <<2021>>
    /\ \E k \in DOMAIN df : df[k].ano_tx = <<2023>>
    /\ Len(linhas_comp) = 6
    /\ \A j \in DOMAIN linhas_comp : linhas_comp[j].p_obito = None

====
